---- MODULE Spec2Model ----
(***************************************************************************)
(* EvidenceVaultClient (src/unnamed/part_021): encrypted evidence storage  *)
(* over an S3-compatible bucket with a signed chain of custody embedded in *)
(* each object's metadata.                                                 *)
(*                                                                         *)
(* Strings that take part in object keys are modelled as paths: sequences  *)
(* of '/'-free segments, so "log/a/x" is <<"log", "a", "x">>.  A caller-   *)
(* supplied evidenceId may itself hold a '/', i.e. be a path of length 2.  *)
(***************************************************************************)
EXTENDS Integers, Sequences, FiniteSets, TLC

\* ------------------------------------------------------------------ bounds
\* Calls the workers may start in one behaviour.
MaxOps == 3

\* ------------------------------------------------------------ JS values
\* JavaScript undefined (or an absent property) where a plain string is
\* expected: description, caseId, user.
Undefined == "undefined"
\* The empty string ''.
EmptyString == ""
\* undefined where a key part (evidenceId, type) is expected: no path at all.
UndefinedPath == <<>>
\* '' as a key part: one empty segment.  Falsy, but a present property.
EmptyPath == <<"">>
\* The values of a key part that JavaScript treats as false.
Falsy == {UndefinedPath, EmptyPath}

\* ------------------------------------------------------------- domains
Workers == {"w1", "w2"}
Users == {"alice", "bob"}
Payloads == {"P1", "P2"}
\* A string argument of storeEvidence that is not a Buffer: a file path.
FilePath == "file:/tmp/evidence.bin"
\* The values crypto.randomBytes(16) is drawn from.
IVs == {"iv1", "iv2"}
\* The ids uuidv4() hands out, in the order it hands them out.
UuidPool == <<"u1", "u2", "u3", "u4", "u5", "u6">>

\* this.evidenceTypes.OTHER
evidenceTypes_OTHER == <<"other">>
\* The values of this.evidenceTypes.
evidenceTypes ==
    { <<"pcap">>, <<"log">>, <<"memory_dump">>, <<"disk_image">>,
      <<"network_flow">>, <<"screenshot">>, <<"timeline">>, evidenceTypes_OTHER }

\* Segments in the order S3 lists them (UTF-8 byte order of the strings).
SegmentOrder == <<"", "a", "bulk", "disk_image", "log", "malware", "other", "pcap", "readme",
                  "u1", "u2", "u3", "u4", "u5", "u6", "x">>

SegRank(s) == CHOOSE i \in 1..Len(SegmentOrder) : SegmentOrder[i] = s

\* Byte order of two keys "s1/s2/..." given as paths.  No segment holds a
\* byte below '/', so the first differing segment decides and a proper
\* prefix comes first.
RECURSIVE PathLess(_, _)
PathLess(p, q) ==
    IF p = <<>> THEN q # <<>>
    ELSE IF q = <<>> THEN FALSE
    ELSE IF Head(p) = Head(q) THEN PathLess(Tail(p), Tail(q))
    ELSE SegRank(Head(p)) < SegRank(Head(q))

\* obj.Key.endsWith(`/${evidenceId}`)
EndsWithSlashId(key, id) ==
    /\ Len(key) > Len(id)
    /\ SubSeq(key, Len(key) - Len(id) + 1, Len(key)) = id

\* `${type}/${evidenceId}`
S3Key(type, evidenceId) == type \o evidenceId

\* ------------------------------------------------------------- crypto
\* crypto.createHash('sha256').update(d).digest('hex')
Sha256(d) == <<"sha256", d>>
Md5(d) == <<"md5", d>>

\* A hex string is kept as the bytes whose digits it spells and what may
\* have happened to the spelling: valid is the number of leading bytes
\* whose two digits are hex digits (16, all of them, for the iv and the tag
\* as written), upper tells that some letter is in upper case.
\* buffer.toString('hex'): all 16 bytes, in lower case.
ToHex(bytes) == [bytes |-> bytes, valid |-> 16, upper |-> FALSE]

\* Buffer.from(hex, 'hex'): the case of a letter makes no difference, and
\* decoding stops without an error at the first character that is no hex
\* digit.  The result is the first `keep` bytes of `of`.
BufferFrom(hex) == [of |-> hex.bytes, keep |-> hex.valid]

\* AES-256-GCM under this.encryptionKey: the ciphertext is the term
\* gcm(iv, plaintext); intact is FALSE once its bytes were altered.
GcmTag(iv, data) == <<"tag", iv, data>>

_encryptData(data, iv) ==
    [ iv |-> ToHex(iv),
      encryptedData |-> [gcmIv |-> iv, plain |-> data, intact |-> TRUE],
      authTag |-> ToHex(GcmTag(iv, data)) ]

\* Mutant of DecryptOk: the tag is never verified.
DecryptUnchecked(encryptedData, ivHex, authTagHex) == TRUE

\* Whether _decryptData returns: createDecipheriv takes any iv that is not
\* empty, setAuthTag (no authTagLength was given) takes a tag of 4, 8 or
\* 12 to 16 bytes, and decipher.final() throws unless the tag, as long as
\* it is, authenticates (iv, ciphertext).
DecryptOk(encryptedData, ivHex, authTagHex) ==
    LET iv == BufferFrom(ivHex)
        authTag == BufferFrom(authTagHex)
    IN  /\ iv.keep > 0
        /\ authTag.keep \in {4, 8, 12, 13, 14, 15, 16}
        /\ encryptedData.intact
        /\ iv.keep = 16 /\ iv.of = encryptedData.gcmIv
        /\ authTag.of = GcmTag(encryptedData.gcmIv, encryptedData.plain)

_decryptData(encryptedData, ivHex, authTagHex) == encryptedData.plain

\* Mutant of _signData: the MAC does not depend on the data.
_signDataKeyOnly(data) == <<"hmac">>

\* HMAC-SHA256 of the serialized entry under this.encryptionKey.
_signData(data) == <<"hmac", data>>

_verifySignature(data, signature) == _signData(data) = signature

\* ------------------------------------------------------------- JSON
\* Properties holding a key part, and properties holding an optional string.
PathProps == {"evidenceId", "type"}
StringProps == {"caseId", "description", "user"}

IsUndefined(obj, g) ==
    IF g \in PathProps THEN obj[g] = UndefinedPath
    ELSE IF g \in StringProps THEN obj[g] = Undefined
    ELSE FALSE

\* JSON.stringify of an object: properties whose value is undefined are
\* left out of the document.
JsonStringify(obj) ==
    [f \in {g \in DOMAIN obj : ~IsUndefined(obj, g)} |-> obj[f]]

\* Reading property f of a parsed document (undefined when absent).
Prop(doc, f) ==
    IF f \in DOMAIN doc THEN doc[f]
    ELSE IF f \in PathProps THEN UndefinedPath ELSE Undefined

\* The entry fields that are signed, in property order.
EntryData(entry) ==
    JsonStringify([ timestamp |-> Prop(entry, "timestamp"),
                    evidenceId |-> Prop(entry, "evidenceId"),
                    action |-> Prop(entry, "action"),
                    user |-> Prop(entry, "user"),
                    description |-> Prop(entry, "description") ])

_generateChainOfCustodyEntry(timestamp, evidenceId, action, user, description) ==
    LET entry == [ timestamp |-> timestamp,
                   evidenceId |-> evidenceId,
                   action |-> action,
                   user |-> user,
                   description |-> IF description = Undefined
                                   THEN EmptyString ELSE description ]
    IN  [ timestamp |-> entry.timestamp,
          evidenceId |-> entry.evidenceId,
          action |-> entry.action,
          user |-> entry.user,
          description |-> entry.description,
          signature |-> _signData(JsonStringify(entry)) ]

\* metadata.chainOfCustody.every(entry => verify(stringify(data), signature))
VerifyChain(chain) ==
    \A i \in 1..Len(chain) : _verifySignature(EntryData(chain[i]), chain[i].signature)

\* ------------------------------------------------------------- state
VARIABLES
    bucket,     \* the S3 bucket: key (a path) -> [Body, Metadata]
    pc,         \* per worker: the await its call is suspended at
    frame,      \* per worker: the locals of its call
    result,     \* per worker: what its last call returned or threw
    now,        \* the wall clock read by new Date()
    nextUuid,   \* index of the next id uuidv4() hands out
    nOps,       \* calls started so far
    history     \* per evidence id: successful stores and appends (ghost)

vars == <<bucket, pc, frame, result, now, nextUuid, nOps, history>>

\* The instants new Date() can show.
Times == {0, 1}

NoObject == [none |-> TRUE]
NoMeta == [none |-> TRUE]

\* searchEvidence({}): no filter is set.  An unset filter is the empty
\* path / Undefined / no date / no tags.
NoFilters ==
    [ type |-> UndefinedPath, caseId |-> Undefined, dateFrom |-> {}, dateTo |-> {},
      tags |-> <<>> ]

\* What a caller remembers of the call it made before the present one.
NoPrior == [op |-> "none"]

Summary(r) ==
    [ op |-> r.op, status |-> r.status, evidenceId |-> r.evidenceId, user |-> r.user,
      given |-> r.given, metadata |-> r.metadata ]

NoFrame ==
    [ op |-> "none", evidenceId |-> UndefinedPath, type |-> UndefinedPath,
      user |-> Undefined, action |-> Undefined, description |-> Undefined,
      outputPath |-> FALSE, given |-> Undefined, extra |-> {},
      filters |-> NoFilters,
      s3Key |-> UndefinedPath, Body |-> NoObject, metadata |-> NoMeta,
      data |-> Undefined, fetched |-> NoObject, prior |-> NoPrior ]

NoResult ==
    [ op |-> "none", status |-> "none", error |-> "none",
      evidenceId |-> UndefinedPath, type |-> UndefinedPath, user |-> Undefined,
      action |-> Undefined, description |-> Undefined, given |-> Undefined,
      extra |-> {}, filters |-> NoFilters,
      metadata |-> NoMeta, data |-> Undefined,
      s3Key |-> UndefinedPath, fetched |-> NoObject, put |-> NoObject,
      prior |-> NoPrior,
      chain |-> <<>>, results |-> <<>>,
      gets |-> 0, puts |-> 0, putDone |-> FALSE, sink |-> Undefined ]

\* The outcome of the call in frame f, with the fields in upd set.
Outcome(f, upd) ==
    [ g \in DOMAIN NoResult |->
        IF g \in DOMAIN upd THEN upd[g]
        ELSE IF g \in {"op", "evidenceId", "type", "user", "action", "description",
                       "given", "extra", "filters", "s3Key", "fetched", "prior"}
             THEN f[g]
        ELSE NoResult[g] ]

\* catch (error) { logger.error(...); throw error; }
Throw(f, error, upd) ==
    Outcome(f, [g \in DOMAIN upd \cup {"status", "error"} |->
                  IF g = "status" THEN "error"
                  ELSE IF g = "error" THEN error ELSE upd[g]])

Return(f, upd) ==
    Outcome(f, [g \in DOMAIN upd \cup {"status"} |->
                  IF g = "status" THEN "ok" ELSE upd[g]])

\* The call of worker w ends with outcome r.
Finish(w, r) ==
    /\ pc' = [pc EXCEPT ![w] = "idle"]
    /\ frame' = [frame EXCEPT ![w] = NoFrame]
    /\ result' = [result EXCEPT ![w] = r]

\* Worker w starts a call.
Start(w) ==
    /\ pc[w] = "idle"
    /\ nOps < MaxOps
    /\ nOps' = nOps + 1

\* The frame of a new call of worker w: a caller that keeps track (ghost)
\* remembers the outcome of its previous call.
NewFrame(w, in, op) ==
    [NoFrame EXCEPT !.op = op,
                    !.prior = IF in.track THEN Summary(result[w]) ELSE NoPrior]

\* ------------------------------------------------------------- S3
RECURSIVE SortKeys(_)
SortKeys(S) ==
    IF S = {} THEN <<>>
    ELSE LET k == CHOOSE j \in S : \A i \in S \ {j} : PathLess(j, i)
         IN  <<k>> \o SortKeys(S \ {k})

\* The most keys one ListObjectsV2 response holds: the command is sent
\* without MaxKeys, and S3 then returns up to 1000.
MaxKeys == 1000

\* The key under which a full page of artifacts of type disk_image is kept
\* as one entry of the bucket, and how many objects an entry stands for.
BulkKey == <<"disk_image", "bulk">>

ObjectsAt(key) == IF key = BulkKey THEN MaxKeys ELSE 1

\* The keys, in order, that begin within the next room objects.
RECURSIVE Page(_, _)
Page(keys, room) ==
    IF keys = <<>> \/ room <= 0 THEN <<>>
    ELSE <<Head(keys)>> \o Page(Tail(keys), room - ObjectsAt(Head(keys)))

\* Mutant of ListObjectsV2: the listing is followed to its end.
ListObjectsV2AllPages(b) == SortKeys(DOMAIN b)

\* ListObjectsV2Command: objects.Contents, in key order; the response is
\* one page, and the code asks for no further page.
ListObjectsV2(b) == Page(SortKeys(DOMAIN b), MaxKeys)

\* Mutant of PutObject: the put leaves nothing but its own object.
PutObjectOnly(b, cmd) ==
    [k \in {cmd.Key} |-> [Body |-> cmd.Body, Metadata |-> cmd.Metadata]]

\* PutObjectCommand { Key, Body, Metadata }
PutObject(b, cmd) ==
    [k \in DOMAIN b \cup {cmd.Key} |->
        IF k = cmd.Key THEN [Body |-> cmd.Body, Metadata |-> cmd.Metadata] ELSE b[k]]

\* Mutant of GetObject: the response is the first listed object.
GetObjectFirst(b, key) ==
    [ Key |-> key, Body |-> b[ListObjectsV2(b)[1]].Body,
      Metadata |-> b[ListObjectsV2(b)[1]].Metadata ]

\* GetObjectCommand { Key }: the response (the key is kept with it).
GetObject(b, key) ==
    [Key |-> key, Body |-> b[key].Body, Metadata |-> b[key].Metadata]

\* Mutant of EvidenceKeys: the listing is not filtered by the id.
EvidenceKeysAll(contents, evidenceId) == contents

\* (objects.Contents || []).filter(obj => obj.Key.endsWith(`/${evidenceId}`))
\*                          .map(obj => obj.Key)
EvidenceKeys(contents, evidenceId) ==
    SelectSeq(contents, LAMBDA key : EndsWithSlashId(key, evidenceId))

\* ------------------------------------------------------------- ghost
Count(id, f) == IF id \in DOMAIN history THEN history[id][f] ELSE 0

\* One more successful call of kind f ("stores" or "appends") on id;
\* a store notes the key it wrote.
Record(id, f, key) ==
    [i \in DOMAIN history \cup {id} |->
        IF i = id
        THEN [ stores |-> Count(id, "stores") + (IF f = "stores" THEN 1 ELSE 0),
               appends |-> Count(id, "appends") + (IF f = "appends" THEN 1 ELSE 0),
               s3Key |-> IF f = "stores" THEN key
                         ELSE IF id \in DOMAIN history THEN history[id].s3Key
                         ELSE UndefinedPath ]
        ELSE history[i]]

\* ------------------------------------------------------------- init
Init ==
    /\ bucket = <<>>
    /\ pc = [w \in Workers |-> "idle"]
    /\ frame = [w \in Workers |-> NoFrame]
    /\ result = [w \in Workers |-> NoResult]
    /\ now = 0
    /\ nextUuid = 1
    /\ nOps = 0
    /\ history = <<>>

\* The wall clock advances.
Tick ==
    /\ now + 1 \in Times
    /\ now' = now + 1
    /\ UNCHANGED <<bucket, pc, frame, result, nextUuid, nOps, history>>

\* ------------------------------------------------------------- store
\* A file path never passes: the module binds createReadStream and
\* createWriteStream but no fs, so fs.promises.access throws a
\* ReferenceError, which the catch turns into false.
_fileExists(filePath) == FALSE

\* Mutant of EvidenceMetadata: type gets no default.
EvidenceMetadataNoDefault(metadata, evidenceId, timestamp) ==
    [ evidenceId |-> IF metadata.evidenceId # UndefinedPath
                     THEN metadata.evidenceId ELSE evidenceId,
      timestamp |-> timestamp,
      type |-> metadata.type,
      caseId |-> metadata.caseId,
      description |-> metadata.description,
      tags |-> metadata.tags ]

\* The evidenceMetadata object of storeEvidence before the custody chain
\* and envelope are added: the defaults, then ...metadata over them (a
\* property present in metadata wins, whatever its value).
EvidenceMetadata(metadata, evidenceId, timestamp) ==
    [ evidenceId |-> IF metadata.evidenceId # UndefinedPath
                     THEN metadata.evidenceId ELSE evidenceId,
      timestamp |-> timestamp,
      type |-> IF metadata.type # UndefinedPath THEN metadata.type
               ELSE IF metadata.type \in Falsy THEN evidenceTypes_OTHER
               ELSE metadata.type,
      caseId |-> metadata.caseId,
      description |-> metadata.description,
      tags |-> metadata.tags ]

\* The properties storeEvidence assigns after the object literal.
EnvelopeProps == {"chainOfCustody", "iv", "authTag", "hash"}

\* Values a caller may put under those names in the metadata argument.
CallerEnvelope ==
    [ chainOfCustody |-> <<>>, iv |-> ToHex("iv0"),
      authTag |-> ToHex(<<"tag", "forged">>),
      hash |-> [sha256 |-> Sha256("forged"), md5 |-> Md5("forged")] ]

\* Mutant of SealMetadata: ...metadata is spread after the assignments.
SealMetadataSpreadLast(base, extra, custodyEntry, encrypted, data) ==
    LET literal == [g \in extra |-> CallerEnvelope[g]]
        assigned == [ chainOfCustody |-> <<custodyEntry>>,
                      iv |-> encrypted.iv, authTag |-> encrypted.authTag,
                      hash |-> [sha256 |-> Sha256(data), md5 |-> Md5(data)] ]
        last == literal @@ assigned
    IN  [ evidenceId |-> base.evidenceId, timestamp |-> base.timestamp,
          type |-> base.type, caseId |-> base.caseId,
          description |-> base.description, tags |-> base.tags,
          chainOfCustody |-> last["chainOfCustody"],
          iv |-> last["iv"], authTag |-> last["authTag"], hash |-> last["hash"] ]

\* The evidenceMetadata object storeEvidence puts: ...metadata leaves in
\* the literal whatever the caller passed under the names in extra; the
\* assignments of chainOfCustody, iv, authTag and hash come after it.
SealMetadata(base, extra, custodyEntry, encrypted, data) ==
    LET literal == [g \in extra |-> CallerEnvelope[g]]
        assigned == [ chainOfCustody |-> <<custodyEntry>>,
                      iv |-> encrypted.iv, authTag |-> encrypted.authTag,
                      hash |-> [sha256 |-> Sha256(data), md5 |-> Md5(data)] ]
        last == assigned @@ literal
    IN  [ evidenceId |-> base.evidenceId, timestamp |-> base.timestamp,
          type |-> base.type, caseId |-> base.caseId,
          description |-> base.description, tags |-> base.tags,
          chainOfCustody |-> last["chainOfCustody"],
          iv |-> last["iv"], authTag |-> last["authTag"], hash |-> last["hash"] ]

\* storeEvidence up to its await of the put.
StoreCall(w, in) ==
    /\ Start(w)
    /\ \E data \in in.data, id \in in.ids, type \in in.types,
          caseId \in in.caseIds, description \in in.descriptions,
          tags \in in.tags, user \in in.users, iv \in in.ivs,
          extra \in in.extras :
        LET metadata == [ evidenceId |-> id, type |-> type, caseId |-> caseId,
                          description |-> description, tags |-> tags ]
            generated == metadata.evidenceId \in Falsy
            evidenceId == IF generated THEN <<UuidPool[nextUuid]>>
                          ELSE metadata.evidenceId
            base == EvidenceMetadata(metadata, evidenceId, now)
            encrypted == _encryptData(data, iv)
            custodyEntry == _generateChainOfCustodyEntry(now, evidenceId, "STORE", user,
                               "Initial storage of evidence " \o
                               (IF description = Undefined THEN EmptyString
                                ELSE description))
            evidenceMetadata ==
                SealMetadata(base, extra, custodyEntry, encrypted, data)
            f == [NewFrame(w, in, "store") EXCEPT
                     !.evidenceId = evidenceId, !.type = type, !.user = user,
                     !.description = description, !.given = data,
                     !.extra = extra]
        IN  /\ generated => nextUuid <= Len(UuidPool)
            /\ nextUuid' = IF generated THEN nextUuid + 1 ELSE nextUuid
            /\ IF data = FilePath /\ ~_fileExists(data)
               THEN /\ Finish(w, Throw(f, "InvalidData", <<>>))
               ELSE /\ pc' = [pc EXCEPT ![w] = "store_put"]
                    /\ frame' = [frame EXCEPT ![w] =
                          [f EXCEPT !.s3Key = S3Key(evidenceMetadata.type, evidenceId),
                                    !.Body = encrypted.encryptedData,
                                    !.metadata = evidenceMetadata]]
                    /\ UNCHANGED result
    /\ UNCHANGED <<bucket, now, history>>

\* The put of storeEvidence is applied by S3, or fails.
StorePut(w) ==
    /\ pc[w] = "store_put"
    /\ LET f == frame[w]
           obj == [ Key |-> f.s3Key, Body |-> f.Body,
                    Metadata |-> JsonStringify(f.metadata) ]
       IN  \/ /\ bucket' = PutObject(bucket, obj)
              /\ history' = Record(f.evidenceId, "stores", f.s3Key)
              /\ Finish(w, Return(f, [ metadata |-> f.metadata, put |-> obj,
                                       puts |-> 1, putDone |-> TRUE ]))
           \/ /\ Finish(w, Throw(f, "StoreUnavailable", [put |-> obj, puts |-> 1]))
              /\ UNCHANGED <<bucket, history>>
    /\ UNCHANGED <<now, nextUuid, nOps>>

\* ------------------------------------------------------------- lookup
\* The ids a caller may ask for: the ones it may have supplied to store
\* and the ones uuidv4() has handed out.
KnownIds(in) ==
    (in.ids \ Falsy) \cup {<<UuidPool[i]>> : i \in 1..(nextUuid - 1)}

\* ------------------------------------------------------------- retrieve
\* retrieveEvidence up to its await of the get: the listing and the choice
\* of evidenceKeys[0].
RetrieveList(w, in) ==
    /\ Start(w)
    /\ \E evidenceId \in KnownIds(in), user \in in.users, outputPath \in in.outputPaths :
        LET f == [NewFrame(w, in, "retrieve") EXCEPT
                     !.evidenceId = evidenceId, !.user = user,
                     !.outputPath = outputPath]
            evidenceKeys == EvidenceKeys(ListObjectsV2(bucket), evidenceId)
        IN  \/ Finish(w, Throw(f, "StoreUnavailable", <<>>))
            \/ IF Len(evidenceKeys) = 0
               THEN Finish(w, Throw(f, "NotFound", <<>>))
               ELSE /\ pc' = [pc EXCEPT ![w] = "retrieve_get"]
                    /\ frame' = [frame EXCEPT ![w] = [f EXCEPT !.s3Key = evidenceKeys[1]]]
                    /\ UNCHANGED result
    /\ UNCHANGED <<bucket, now, nextUuid, history>>

\* Mutant of RetrieveGet: the digest of the plaintext is not compared.
RetrieveGetNoDigest(w) ==
    /\ pc[w] = "retrieve_get"
    /\ LET f == frame[w]
           response == GetObject(bucket, f.s3Key)
           evidenceMetadata == response.Metadata
           custodyEntry == _generateChainOfCustodyEntry(now, f.evidenceId, "RETRIEVE",
                              f.user, "Evidence retrieved by " \o f.user)
       IN  IF ~DecryptOk(response.Body, evidenceMetadata.iv, evidenceMetadata.authTag)
           THEN Finish(w, Throw([f EXCEPT !.fetched = response], "DecryptError",
                                [gets |-> 1]))
           ELSE /\ pc' = [pc EXCEPT ![w] = "retrieve_put"]
                /\ frame' = [frame EXCEPT ![w] =
                      [f EXCEPT !.fetched = response,
                                !.Body = response.Body,
                                !.data = _decryptData(response.Body, evidenceMetadata.iv,
                                                      evidenceMetadata.authTag),
                                !.metadata =
                                   [evidenceMetadata EXCEPT !.chainOfCustody =
                                       Append(@, custodyEntry)]]]
                /\ UNCHANGED result
    /\ UNCHANGED <<bucket, now, nextUuid, nOps, history>>

\* The get answers; retrieveEvidence decrypts, compares the digest, appends
\* its RETRIEVE entry and runs up to its await of the put.
RetrieveGet(w) ==
    /\ pc[w] = "retrieve_get"
    /\ LET f == frame[w]
           response == GetObject(bucket, f.s3Key)
           evidenceMetadata == response.Metadata
           encryptedData == response.Body
           got == [f EXCEPT !.fetched = response]
           decryptedData == _decryptData(encryptedData, evidenceMetadata.iv,
                                         evidenceMetadata.authTag)
           custodyEntry == _generateChainOfCustodyEntry(now, f.evidenceId, "RETRIEVE",
                              f.user, "Evidence retrieved by " \o f.user)
       IN  \/ Finish(w, Throw(f, "StoreUnavailable", [gets |-> 1]))
           \/ IF ~DecryptOk(encryptedData, evidenceMetadata.iv, evidenceMetadata.authTag)
              THEN Finish(w, Throw(got, "DecryptError", [gets |-> 1]))
              ELSE IF Sha256(decryptedData) # evidenceMetadata.hash.sha256
              THEN Finish(w, Throw(got, "HashMismatch", [gets |-> 1]))
              ELSE /\ pc' = [pc EXCEPT ![w] = "retrieve_put"]
                   /\ frame' = [frame EXCEPT ![w] =
                         [got EXCEPT !.Body = encryptedData,
                                     !.data = decryptedData,
                                     !.metadata =
                                        [evidenceMetadata EXCEPT !.chainOfCustody =
                                            Append(@, custodyEntry)]]]
                   /\ UNCHANGED result
    /\ UNCHANGED <<bucket, now, nextUuid, nOps, history>>

\* Mutant of ChainToPut: the entry is appended to the chain stored at the
\* time of the put (an atomic append), not to the chain that was fetched.
ChainToPutMerged(f) ==
    Append(bucket[f.s3Key].Metadata.chainOfCustody,
           f.metadata.chainOfCustody[Len(f.metadata.chainOfCustody)])

\* Mutant of ChainToPut: the chain is replaced by the new entry alone.
ChainToPutNewestOnly(f) ==
    <<f.metadata.chainOfCustody[Len(f.metadata.chainOfCustody)]>>

\* Mutant of ChainToPut: the new entry is written twice.
ChainToPutDoubled(f) ==
    Append(f.metadata.chainOfCustody,
           f.metadata.chainOfCustody[Len(f.metadata.chainOfCustody)])

\* The chain an appender writes: the one it fetched, with its entry pushed.
ChainToPut(f) == f.metadata.chainOfCustody

\* Mutant of ObjectToPut: the body chunks are put back damaged.
ObjectToPutMangled(f) ==
    [ Key |-> f.s3Key,
      Body |-> [f.Body EXCEPT !.intact = FALSE],
      Metadata |-> JsonStringify([f.metadata EXCEPT !.chainOfCustody = ChainToPut(f)]) ]

\* The object an appender (retrieveEvidence, addCustodyEvent) puts back.
ObjectToPut(f) ==
    [ Key |-> f.s3Key,
      Body |-> f.Body,
      Metadata |-> JsonStringify([f.metadata EXCEPT !.chainOfCustody = ChainToPut(f)]) ]

\* Mutant of RetrievePut: a failed put is logged and the read still returns.
RetrievePutBestEffort(w) ==
    /\ pc[w] = "retrieve_put"
    /\ LET f == frame[w]
           obj == ObjectToPut(f)
           out == [ gets |-> 1, puts |-> 1, put |-> obj,
                    metadata |-> f.metadata, data |-> f.data,
                    sink |-> IF f.outputPath THEN f.data ELSE Undefined ]
       IN  \/ /\ Finish(w, Return(f, out))
              /\ UNCHANGED <<bucket, history>>
           \/ /\ bucket' = PutObject(bucket, obj)
              /\ Finish(w, Return(f, [out EXCEPT !.puts = 1] @@ [putDone |-> TRUE]))
              /\ history' = Record(f.evidenceId, "appends", UndefinedPath)
    /\ UNCHANGED <<now, nextUuid, nOps>>

\* The put of retrieveEvidence is applied, or fails; after it the plaintext
\* goes to outputPath (a write that may itself fail) and is returned.
RetrievePut(w) ==
    /\ pc[w] = "retrieve_put"
    /\ LET f == frame[w]
           obj == ObjectToPut(f)
           done == [ gets |-> 1, puts |-> 1, put |-> obj, putDone |-> TRUE ]
       IN  \/ /\ Finish(w, Throw(f, "StoreUnavailable",
                                 [gets |-> 1, puts |-> 1, put |-> obj]))
              /\ UNCHANGED <<bucket, history>>
           \/ /\ bucket' = PutObject(bucket, obj)
              /\ \/ /\ Finish(w, Return(f, [ gets |-> 1, puts |-> 1, put |-> obj,
                                             putDone |-> TRUE,
                                             metadata |-> f.metadata, data |-> f.data,
                                             sink |-> IF f.outputPath THEN f.data
                                                      ELSE Undefined ]))
                    /\ history' = Record(f.evidenceId, "appends", UndefinedPath)
                 \/ /\ f.outputPath
                    /\ Finish(w, Throw(f, "OutputError", done))
                    /\ UNCHANGED history
    /\ UNCHANGED <<now, nextUuid, nOps>>

\* ------------------------------------------------------- addCustodyEvent
\* addCustodyEvent up to its await of the get.
AddCustodyList(w, in) ==
    /\ Start(w)
    /\ \E evidenceId \in KnownIds(in), action \in in.actions, user \in in.users,
          description \in in.eventDescriptions :
        LET f == [NewFrame(w, in, "addCustodyEvent") EXCEPT
                     !.evidenceId = evidenceId, !.action = action, !.user = user,
                     !.description = description]
            evidenceKeys == EvidenceKeys(ListObjectsV2(bucket), evidenceId)
        IN  \/ Finish(w, Throw(f, "StoreUnavailable", <<>>))
            \/ IF Len(evidenceKeys) = 0
               THEN Finish(w, Throw(f, "NotFound", <<>>))
               ELSE /\ pc' = [pc EXCEPT ![w] = "add_get"]
                    /\ frame' = [frame EXCEPT ![w] = [f EXCEPT !.s3Key = evidenceKeys[1]]]
                    /\ UNCHANGED result
    /\ UNCHANGED <<bucket, now, nextUuid, history>>

\* The get answers; addCustodyEvent pushes its entry and runs up to its
\* await of the put.
AddCustodyGet(w) ==
    /\ pc[w] = "add_get"
    /\ LET f == frame[w]
           response == GetObject(bucket, f.s3Key)
           evidenceMetadata == response.Metadata
           custodyEntry == _generateChainOfCustodyEntry(now, f.evidenceId, f.action,
                              f.user, f.description)
       IN  \/ Finish(w, Throw(f, "StoreUnavailable", [gets |-> 1]))
           \/ /\ pc' = [pc EXCEPT ![w] = "add_put"]
              /\ frame' = [frame EXCEPT ![w] =
                    [f EXCEPT !.fetched = response,
                              !.Body = response.Body,
                              !.metadata =
                                 [evidenceMetadata EXCEPT !.chainOfCustody =
                                     Append(@, custodyEntry)]]]
              /\ UNCHANGED result
    /\ UNCHANGED <<bucket, now, nextUuid, nOps, history>>

\* Mutant of AddCustodyPut: a failed put is issued once more.
AddCustodyPutRetried(w) ==
    /\ pc[w] = "add_put"
    /\ LET f == frame[w]
           obj == ObjectToPut(f)
       IN  \E puts \in {1, 2} :
              /\ bucket' = PutObject(bucket, obj)
              /\ Finish(w, Return(f, [ gets |-> 1, puts |-> puts, put |-> obj,
                                       putDone |-> TRUE, metadata |-> f.metadata ]))
              /\ history' = Record(f.evidenceId, "appends", UndefinedPath)
    /\ UNCHANGED <<now, nextUuid, nOps>>

\* The put of addCustodyEvent is applied, or fails.
AddCustodyPut(w) ==
    /\ pc[w] = "add_put"
    /\ LET f == frame[w]
           obj == ObjectToPut(f)
       IN  \/ /\ Finish(w, Throw(f, "StoreUnavailable",
                                 [gets |-> 1, puts |-> 1, put |-> obj]))
              /\ UNCHANGED <<bucket, history>>
           \/ /\ bucket' = PutObject(bucket, obj)
              /\ Finish(w, Return(f, [ gets |-> 1, puts |-> 1, put |-> obj,
                                       putDone |-> TRUE, metadata |-> f.metadata ]))
              /\ history' = Record(f.evidenceId, "appends", UndefinedPath)
    /\ UNCHANGED <<now, nextUuid, nOps>>

\* ------------------------------------------------------------- reads
\* Whether the name HeadObjectCommand is bound in the module: the require
\* of '@aws-sdk/client-s3' destructures S3Client, PutObjectCommand,
\* GetObjectCommand, DeleteObjectCommand and ListObjectsV2Command only, so
\* `new HeadObjectCommand(...)` throws a ReferenceError.
HeadObjectCommandBound == FALSE

\* getEvidenceMetadata once its listing has answered.
EvidenceMetadataOutcome(f, b) ==
    LET evidenceKeys == EvidenceKeys(ListObjectsV2(b), f.evidenceId)
    IN  IF Len(evidenceKeys) = 0 THEN Throw(f, "NotFound", <<>>)
        ELSE IF ~HeadObjectCommandBound
        THEN Throw([f EXCEPT !.s3Key = evidenceKeys[1]], "ReferenceError", <<>>)
        ELSE Return([f EXCEPT !.s3Key = evidenceKeys[1],
                              !.fetched = [ Key |-> evidenceKeys[1],
                                            Metadata |-> b[evidenceKeys[1]].Metadata ]],
                    [metadata |-> b[evidenceKeys[1]].Metadata])

\* getEvidenceMetadata(evidenceId)
GetEvidenceMetadata(w, in) ==
    /\ Start(w)
    /\ \E evidenceId \in KnownIds(in) :
        LET f == [NewFrame(w, in, "getMetadata") EXCEPT !.evidenceId = evidenceId]
        IN  \/ Finish(w, Throw(f, "StoreUnavailable", <<>>))
            \/ Finish(w, EvidenceMetadataOutcome(f, bucket))
    /\ UNCHANGED <<bucket, now, nextUuid, history>>

\* Mutant of ChainOfCustodyOutcome: the stored chain is handed out as it is.
ChainOfCustodyOutcomeUnverified(f, b) ==
    LET evidenceKeys == EvidenceKeys(ListObjectsV2(b), f.evidenceId)
    IN  IF Len(evidenceKeys) = 0 THEN Throw(f, "NotFound", <<>>)
        ELSE Return(f, [chain |-> b[evidenceKeys[1]].Metadata.chainOfCustody])

\* getChainOfCustody(evidenceId): getEvidenceMetadata, then every entry's
\* signature is verified.
ChainOfCustodyOutcome(f, b) ==
    LET r == EvidenceMetadataOutcome(f, b)
    IN  IF r.status = "error" THEN r
        ELSE IF "chainOfCustody" \notin DOMAIN r.metadata
        THEN Throw(f, "NoChainOfCustody", <<>>)
        ELSE IF ~VerifyChain(r.metadata.chainOfCustody)
        THEN Throw(f, "ChainIntegrity", <<>>)
        ELSE Return(f, [chain |-> r.metadata.chainOfCustody])

GetChainOfCustody(w, in) ==
    /\ Start(w)
    /\ \E evidenceId \in KnownIds(in) :
        LET f == [NewFrame(w, in, "getChainOfCustody") EXCEPT
                     !.evidenceId = evidenceId]
        IN  \/ Finish(w, Throw(f, "StoreUnavailable", <<>>))
            \/ Finish(w, ChainOfCustodyOutcome(f, bucket))
    /\ UNCHANGED <<bucket, now, nextUuid, history>>

\* The filter tests of searchEvidence on one object's metadata.  An unset
\* filter is Undefined / the empty path / no date / no tags.
Matches(metadata, filters) ==
    /\ ~(filters.type \notin Falsy /\ Prop(metadata, "type") # filters.type)
    /\ ~(filters.caseId # Undefined /\ Prop(metadata, "caseId") # filters.caseId)
    /\ \A dateFrom \in filters.dateFrom : ~(metadata.timestamp < dateFrom)
    /\ \A dateTo \in filters.dateTo : ~(metadata.timestamp > dateTo)
    /\ (Len(filters.tags) > 0 =>
           \E i \in 1..Len(filters.tags), j \in 1..Len(metadata.tags) :
               filters.tags[i] = metadata.tags[j])

\* searchEvidence once its listing has answered: the head of the first
\* listed object throws when HeadObjectCommand is unbound.  Objects without
\* evidence metadata are passed over.
SearchOutcome(f, b, filters) ==
    LET contents == ListObjectsV2(b)
        hits == SelectSeq(contents, LAMBDA key : /\ b[key].Metadata # NoMeta
                                                 /\ Matches(b[key].Metadata, filters))
    IN  IF Len(contents) = 0 THEN Return(f, [results |-> <<>>])
        ELSE IF ~HeadObjectCommandBound THEN Throw(f, "ReferenceError", <<>>)
        ELSE Return(f, [results |->
                 [i \in 1..Len(hits) |->
                     [ evidenceId |-> Prop(b[hits[i]].Metadata, "evidenceId"),
                       metadata |-> b[hits[i]].Metadata ]]])

\* searchEvidence(filters)
SearchEvidence(w, in) ==
    /\ Start(w)
    /\ \E filters \in in.filters :
        LET f == [NewFrame(w, in, "search") EXCEPT !.filters = filters]
        IN  \/ Finish(w, Throw(f, "StoreUnavailable", <<>>))
            \/ Finish(w, SearchOutcome(f, bucket, filters))
    /\ UNCHANGED <<bucket, now, nextUuid, history>>

\* ------------------------------------------------------------ tampering
\* Whether the envelope of a stored object is as store wrote it: the body
\* is the ciphertext of the digested plaintext under the stored iv, and the
\* stored tag is its tag.
Intact(obj) ==
    /\ obj.Body.intact
    /\ obj.Metadata.iv = ToHex(obj.Body.gcmIv)
    /\ obj.Metadata.authTag = ToHex(GcmTag(obj.Body.gcmIv, obj.Body.plain))
    /\ obj.Metadata.hash.sha256 = Sha256(obj.Body.plain)

\* Someone other than the vault alters an intact stored object in place:
\* its ciphertext bytes, or the iv, authTag or hash.sha256 of its metadata.
\* The custody chain is left alone.
Tamper ==
    \E key \in DOMAIN bucket, part \in {"Body", "iv", "authTag", "sha256"} :
        LET obj == bucket[key]
            bad == CASE part = "Body" ->
                        [obj EXCEPT !.Body.intact = FALSE]
                     [] part = "iv" ->
                        [obj EXCEPT !.Metadata.iv = ToHex("iv0")]
                     [] part = "authTag" ->
                        [obj EXCEPT !.Metadata.authTag = ToHex(<<"tag", "forged">>)]
                     [] part = "sha256" ->
                        [obj EXCEPT !.Metadata.hash.sha256 = Sha256("forged")]
        IN  /\ Intact(obj)
            /\ bucket' = [bucket EXCEPT ![key] = bad]
            /\ UNCHANGED <<pc, frame, result, now, nextUuid, nOps, history>>

\* The properties of a custody entry that its signature covers.
SignedFields == {"timestamp", "evidenceId", "action", "user", "description"}

\* Entry with its property g given another value, the signature kept.
Forge(entry, g) ==
    CASE g = "timestamp" -> [entry EXCEPT !.timestamp = CHOOSE t \in Times : t # @]
      [] g = "evidenceId" -> [entry EXCEPT !.evidenceId = <<"forged">>]
      [] g = "action" -> [entry EXCEPT !.action = "FORGED"]
      [] g = "user" -> [entry EXCEPT !.user = "mallory"]
      [] g = "description" -> [entry EXCEPT !.description = "forged"]

\* Someone other than the vault rewrites one signed property of one entry
\* of a stored chain that verified until then, without the key.
TamperChain ==
    \E key \in DOMAIN bucket, g \in SignedFields :
        LET chain == bucket[key].Metadata.chainOfCustody
        IN  /\ VerifyChain(chain)
            /\ \E i \in DOMAIN chain :
                  bucket' = [bucket EXCEPT
                                ![key].Metadata.chainOfCustody[i] = Forge(@, g)]
            /\ UNCHANGED <<pc, frame, result, now, nextUuid, nOps, history>>

\* chain without its entry i.
DeleteEntry(chain, i) == SubSeq(chain, 1, i - 1) \o SubSeq(chain, i + 1, Len(chain))

\* chain with its entry i once more, right after it.
DuplicateEntry(chain, i) ==
    SubSeq(chain, 1, i) \o <<chain[i]>> \o SubSeq(chain, i + 1, Len(chain))

\* chain with its entries i and j exchanged.
SwapEntries(chain, i, j) ==
    [k \in DOMAIN chain |-> IF k = i THEN chain[j] ELSE IF k = j THEN chain[i]
                            ELSE chain[k]]

\* Someone other than the vault deletes, duplicates or moves a whole entry
\* of a stored chain, signatures included and without the key.  An entry
\* is duplicated once.
RearrangeChain ==
    \E key \in DOMAIN bucket :
        LET chain == bucket[key].Metadata.chainOfCustody
        IN  /\ \E i \in DOMAIN chain :
                  \/ bucket' = [bucket EXCEPT
                                   ![key].Metadata.chainOfCustody = DeleteEntry(chain, i)]
                  \/ /\ Cardinality({j \in DOMAIN chain : chain[j] = chain[i]}) = 1
                     /\ bucket' = [bucket EXCEPT
                                      ![key].Metadata.chainOfCustody =
                                         DuplicateEntry(chain, i)]
                  \/ \E j \in DOMAIN chain :
                        /\ chain[j] # chain[i]
                        /\ bucket' = [bucket EXCEPT
                                         ![key].Metadata.chainOfCustody =
                                            SwapEntries(chain, i, j)]
            /\ UNCHANGED <<pc, frame, result, now, nextUuid, nOps, history>>

\* MaxKeys artifacts of type disk_image are stored: their keys sort before
\* those of every type from log on.
BulkStore ==
    LET entry == _generateChainOfCustodyEntry(now, <<"bulk">>, "STORE", "alice",
                    "Initial storage of evidence d")
        encrypted == _encryptData("P1", "iv1")
        base == EvidenceMetadata([ evidenceId |-> <<"bulk">>, type |-> <<"disk_image">>,
                                   caseId |-> Undefined, description |-> "d",
                                   tags |-> <<>> ], <<"bulk">>, now)
        obj == [ Key |-> BulkKey, Body |-> encrypted.encryptedData,
                 Metadata |-> JsonStringify(SealMetadata(base, {}, entry, encrypted, "P1")) ]
    IN  /\ BulkKey \notin DOMAIN bucket
        /\ bucket' = PutObject(bucket, obj)
        /\ history' = Record(<<"bulk">>, "stores", BulkKey)
        /\ UNCHANGED <<pc, frame, result, now, nextUuid, nOps>>

\* The key of an object that is not evidence.
ForeignKey == <<"other", "readme">>

\* Someone other than the vault puts an object without an
\* 'evidence-metadata' entry into the bucket.
ForeignPut ==
    /\ ForeignKey \notin DOMAIN bucket
    /\ bucket' = PutObject(bucket, [Key |-> ForeignKey, Body |-> "readme",
                                    Metadata |-> NoMeta])
    /\ UNCHANGED <<pc, frame, result, now, nextUuid, nOps, history>>

\* ------------------------------------------------------------ envelope
\* An envelope as _encryptData returns it, kept in the frame of worker w.
Sealed(w, data, iv) ==
    LET encrypted == _encryptData(data, iv)
    IN  [NoFrame EXCEPT !.op = "decrypt", !.given = data,
                        !.Body = encrypted.encryptedData,
                        !.metadata = [iv |-> encrypted.iv, authTag |-> encrypted.authTag]]

\* _encryptData was applied to some data under some iv.
InitCrypto ==
    /\ bucket = <<>>
    /\ pc = [w \in Workers |-> "idle"]
    /\ \E data \in Payloads, iv \in IVs :
          frame = [w \in Workers |-> IF w = "w1" THEN Sealed(w, data, iv) ELSE NoFrame]
    /\ result = [w \in Workers |-> NoResult]
    /\ now = 0
    /\ nextUuid = 1
    /\ nOps = 0
    /\ history = <<>>

\* A hex string after a change of one of its characters: a letter changes
\* case, a digit becomes another digit (other bytes), or the character of
\* byte n + 1 stops being a hex digit.
HexFlips(hex, otherBytes) ==
    {[hex EXCEPT !.upper = TRUE], [hex EXCEPT !.bytes = otherBytes]}
        \cup {[hex EXCEPT !.valid = IF n < @ THEN n ELSE @] : n \in 0..15}

\* Bits of the envelope of worker w change: in the ciphertext, in the iv
\* or in the auth tag.
FlipBit(w) ==
    /\ frame[w].op = "decrypt"
    /\ \/ frame' = [frame EXCEPT ![w].Body.intact = FALSE]
       \/ \E hex \in HexFlips(frame[w].metadata.iv, "flipped") :
             frame' = [frame EXCEPT ![w].metadata.iv = hex]
       \/ \E hex \in HexFlips(frame[w].metadata.authTag, <<"tag", "flipped">>) :
             frame' = [frame EXCEPT ![w].metadata.authTag = hex]
    /\ UNCHANGED <<bucket, pc, result, now, nextUuid, nOps, history>>

\* _decryptData is applied to the envelope of worker w as it is now.
Decrypt(w) ==
    /\ frame[w].op = "decrypt"
    /\ LET f == [frame[w] EXCEPT !.fetched = [ Key |-> UndefinedPath,
                                               Body |-> frame[w].Body,
                                               Metadata |-> frame[w].metadata ]]
       IN  Finish(w, IF DecryptOk(f.Body, f.metadata.iv, f.metadata.authTag)
                     THEN Return(f, [data |-> _decryptData(f.Body, f.metadata.iv,
                                                           f.metadata.authTag)])
                     ELSE Throw(f, "DecryptError", <<>>))
    /\ UNCHANGED <<bucket, now, nextUuid, nOps, history>>

\* --------------------------------------------------------- specifications
\* What concurrent callers pass.
ConcurrentInputs ==
    [ data |-> {"P1"}, ids |-> {UndefinedPath, <<"x">>}, types |-> {<<"log">>},
      caseIds |-> {Undefined}, descriptions |-> {"d"}, tags |-> {<<>>},
      users |-> {"alice"}, ivs |-> {"iv1"}, extras |-> {{}},
      actions |-> {"ANALYZE"},
      eventDescriptions |-> {"note"},
      outputPaths |-> {FALSE}, filters |-> {NoFilters}, track |-> FALSE ]

\* What a single caller passes, one call at a time.
SerialInputs ==
    [ data |-> Payloads, ids |-> {UndefinedPath, <<"x">>, <<"a", "x">>},
      types |-> {<<"log">>},
      caseIds |-> {Undefined}, descriptions |-> {"d"}, tags |-> {<<>>},
      users |-> Users, ivs |-> {"iv1"}, extras |-> {{}},
      actions |-> {"ANALYZE"},
      eventDescriptions |-> {"note"},
      outputPaths |-> BOOLEAN, filters |-> {NoFilters}, track |-> TRUE ]

\* A single caller that leaves type or description out of the metadata,
\* or passes a file path.
ValidationInputs ==
    [ data |-> {"P1", FilePath}, ids |-> {UndefinedPath},
      types |-> {UndefinedPath, <<"log">>},
      caseIds |-> {Undefined}, descriptions |-> {Undefined, "d"}, tags |-> {<<>>},
      users |-> {"alice"}, ivs |-> {"iv1"}, extras |-> {{}},
      actions |-> {"ANALYZE"},
      eventDescriptions |-> {Undefined, "note"},
      outputPaths |-> {FALSE}, filters |-> {NoFilters}, track |-> FALSE ]

\* A single caller whose stored objects are tampered with.
TamperInputs ==
    [ data |-> {"P1"}, ids |-> {UndefinedPath}, types |-> {<<"log">>},
      caseIds |-> {Undefined}, descriptions |-> {"d"}, tags |-> {<<>>},
      users |-> {"alice"}, ivs |-> {"iv1"}, extras |-> {{}},
      actions |-> {"ANALYZE"},
      eventDescriptions |-> {"note"},
      outputPaths |-> BOOLEAN, filters |-> {NoFilters}, track |-> FALSE ]

\* A single caller that stores artifacts of several types, cases and tags
\* and searches them.
SearchInputs ==
    [ data |-> {"P1"}, ids |-> {UndefinedPath}, types |-> {<<"log">>, <<"pcap">>},
      caseIds |-> {Undefined, "INC-1"}, descriptions |-> {"d"},
      tags |-> {<<>>, <<"t1">>},
      users |-> {"alice"}, ivs |-> {"iv1"}, extras |-> {{}},
      actions |-> {"ANALYZE"},
      eventDescriptions |-> {"note"}, outputPaths |-> {FALSE},
      filters |-> { NoFilters,
                    [NoFilters EXCEPT !.type = <<"pcap">>],
                    [NoFilters EXCEPT !.caseId = "INC-1"],
                    [NoFilters EXCEPT !.tags = <<"t1", "t2">>],
                    [NoFilters EXCEPT !.dateFrom = {1}],
                    [NoFilters EXCEPT !.dateTo = {0}] },
      track |-> FALSE ]

\* A single caller whose stored custody chains are forged.
ForgeInputs ==
    [ data |-> {"P1"}, ids |-> {UndefinedPath}, types |-> {<<"log">>},
      caseIds |-> {Undefined}, descriptions |-> {"d"}, tags |-> {<<>>},
      users |-> {"alice"}, ivs |-> {"iv1"}, extras |-> {{}},
      actions |-> {"ANALYZE"},
      eventDescriptions |-> {"note"},
      outputPaths |-> {FALSE}, filters |-> {NoFilters}, track |-> FALSE ]

\* A single caller that chooses evidence ids and types itself, an empty
\* evidenceId and a type of its own invention included.
KeyInputs ==
    [ data |-> {"P1"}, ids |-> {UndefinedPath, EmptyPath, <<"x">>},
      types |-> {<<"log">>, <<"pcap">>, <<"malware">>},
      caseIds |-> {Undefined}, descriptions |-> {"d"}, tags |-> {<<>>},
      users |-> {"alice"}, ivs |-> IVs, extras |-> {{}},
      actions |-> {"ANALYZE"},
      eventDescriptions |-> {"note"},
      outputPaths |-> {FALSE}, filters |-> {NoFilters}, track |-> FALSE ]

\* Concurrent callers that store under one id, with envelope properties of
\* their own in the metadata argument or without, and append to it.
EnvelopeInputs ==
    [ data |-> Payloads, ids |-> {<<"x">>}, types |-> {<<"log">>},
      caseIds |-> {Undefined}, descriptions |-> {"d"}, tags |-> {<<>>},
      users |-> {"alice"}, ivs |-> {"iv1"}, extras |-> {{}, EnvelopeProps},
      actions |-> {"ANALYZE"}, eventDescriptions |-> {"note"},
      outputPaths |-> {FALSE}, filters |-> {NoFilters}, track |-> FALSE ]

Call(w, in) ==
    \/ StoreCall(w, in)
    \/ RetrieveList(w, in)
    \/ AddCustodyList(w, in)
    \/ GetEvidenceMetadata(w, in)
    \/ GetChainOfCustody(w, in)
    \/ SearchEvidence(w, in)

Resume(w) ==
    \/ StorePut(w)
    \/ RetrieveGet(w)
    \/ RetrievePut(w)
    \/ AddCustodyGet(w)
    \/ AddCustodyPut(w)

\* Any number of workers call into the vault; their awaits interleave.
Next ==
    \/ Tick
    \/ \E w \in Workers : Call(w, ConcurrentInputs) \/ Resume(w)

Spec == Init /\ [][Next]_vars

\* Any number of workers store, retrieve and add custody events; no one
\* else writes to the bucket.
NextEnvelope ==
    \E w \in Workers :
        \/ StoreCall(w, EnvelopeInputs)
        \/ RetrieveList(w, EnvelopeInputs)
        \/ AddCustodyList(w, EnvelopeInputs)
        \/ Resume(w)

SpecEnvelope == Init /\ [][NextEnvelope]_vars

\* One caller, one call at a time.
NextSerial ==
    \/ Tick
    \/ Call("w1", SerialInputs)
    \/ Resume("w1")

SpecSerial == Init /\ [][NextSerial]_vars

\* One caller, one call at a time, with incomplete metadata.
NextValidation ==
    \/ Tick
    \/ Call("w1", ValidationInputs)
    \/ Resume("w1")

SpecValidation == Init /\ [][NextValidation]_vars

\* One caller, one call at a time, and a tamperer.
NextTamper ==
    \/ Tick
    \/ Tamper
    \/ Call("w1", TamperInputs)
    \/ Resume("w1")

SpecTamper == Init /\ [][NextTamper]_vars

\* One caller that stores and searches, one call at a time.
NextSearch ==
    \/ Tick
    \/ StoreCall("w1", SearchInputs)
    \/ StorePut("w1")
    \/ SearchEvidence("w1", SearchInputs)

SpecSearch == Init /\ [][NextSearch]_vars

\* One caller, one call at a time, and a forger of custody entries.
NextForge ==
    \/ Tick
    \/ TamperChain
    \/ Call("w1", ForgeInputs)
    \/ Resume("w1")

SpecForge == Init /\ [][NextForge]_vars

\* One caller, one call at a time, and someone who rearranges stored
\* chains.
NextRearrange ==
    \/ RearrangeChain
    \/ Call("w1", ForgeInputs)
    \/ Resume("w1")

SpecRearrange == Init /\ [][NextRearrange]_vars

\* One caller, one call at a time, in a bucket that may hold a full page
\* of other artifacts.
NextPaging ==
    \/ BulkStore
    \/ Call("w1", ForgeInputs)
    \/ Resume("w1")

SpecPaging == Init /\ [][NextPaging]_vars

\* One caller that stores and reads, one call at a time, in a bucket that
\* may hold an object that is not evidence.
NextReadOnly ==
    \/ Tick
    \/ ForeignPut
    \/ StoreCall("w1", ForgeInputs)
    \/ StorePut("w1")
    \/ GetEvidenceMetadata("w1", ForgeInputs)
    \/ GetChainOfCustody("w1", ForgeInputs)
    \/ SearchEvidence("w1", ForgeInputs)

SpecReadOnly == Init /\ [][NextReadOnly]_vars

\* One caller, one call at a time, with evidence ids of its own choice.
NextKeys ==
    \/ Tick
    \/ Call("w1", KeyInputs)
    \/ Resume("w1")

SpecKeys == Init /\ [][NextKeys]_vars

\* _encryptData, changes of the envelope, and _decryptData.
NextCrypto ==
    \/ FlipBit("w1")
    \/ Decrypt("w1")

SpecCrypto == InitCrypto /\ [][NextCrypto]_vars

\* ================================================================ claims
\* The custody chain stored in object obj.
ChainOf(obj) == obj.Metadata.chainOfCustody

IsPrefix(s, t) == Len(s) <= Len(t) /\ SubSeq(t, 1, Len(s)) = s

Appenders == {"retrieve", "addCustodyEvent"}

\* C1 (SpecSerial).  Monotonic custody growth: with calls made one at a
\* time, an evidence id that store created (once) and on which N retrieve /
\* addCustodyEvent calls have succeeded has a stored chain of exactly N + 1
\* entries, the first of them the STORE entry.
C1_MonotonicCustodyGrowth ==
    \A id \in DOMAIN history :
        history[id].stores = 1 =>
            LET chain == ChainOf(bucket[history[id].s3Key])
            IN  /\ Len(chain) = history[id].appends + 1
                /\ chain[1].action = "STORE"

\* C2 (SpecSerial).  The custody chain is append-only: whatever call is
\* made, store with a caller-supplied evidenceId included, the chain stored
\* under a key before a step is a prefix of the chain stored under it
\* after the step.
C2_ChainAppendOnly ==
    [][\A key \in DOMAIN bucket :
          /\ key \in DOMAIN bucket'
          /\ IsPrefix(ChainOf(bucket[key]), ChainOf(bucket'[key]))]_vars

\* C3 (Spec).  Lost append under concurrency: an appender's put is a blind
\* write.  Whenever the put of a retrieve or addCustodyEvent call succeeds,
\* the chain stored afterwards is the chain that call fetched followed by
\* its one entry, whatever was stored in between (no lock, version check or
\* retry), so of two overlapping appenders that fetched the same chain only
\* the later put's entry survives.
C3_AppendIsBlindWrite ==
    [][\A w \in Workers :
          (pc[w] \in {"retrieve_put", "add_put"} /\ pc'[w] = "idle"
                                                 /\ result'[w].putDone) =>
              ChainOf(bucket'[frame[w].s3Key]) =
                  Append(ChainOf(frame[w].fetched),
                         frame[w].metadata.chainOfCustody[
                             Len(frame[w].metadata.chainOfCustody)])]_vars

\* C3 witness: two overlapping appenders fetched the same object, both
\* returned successfully, and the stored chain is one entry longer than
\* what they fetched, not two.
C3_LostAppendReached ==
    \E w \in Workers, v \in Workers :
        /\ w # v
        /\ result[w].op \in Appenders /\ result[w].status = "ok"
        /\ result[v].op \in Appenders /\ result[v].status = "ok"
        /\ result[w].s3Key = result[v].s3Key
        /\ result[w].fetched = result[v].fetched
        /\ Count(result[w].evidenceId, "appends") +
             (IF result[v].evidenceId = result[w].evidenceId THEN 0
              ELSE Count(result[v].evidenceId, "appends")) = 2
        /\ Len(ChainOf(bucket[result[w].s3Key])) = Len(ChainOf(result[w].fetched)) + 1

C7_ChainStartsWithStore ==
    \A key \in DOMAIN bucket :
        /\ Len(ChainOf(bucket[key])) >= 1
        /\ ChainOf(bucket[key])[1].action = "STORE"

\* C7 witness: an object whose chain was extended by a retrieve and by an
\* addCustodyEvent.
C7_ExtendedChainReached ==
    \E key \in DOMAIN bucket :
        /\ Len(ChainOf(bucket[key])) = 3
        /\ {ChainOf(bucket[key])[2].action, ChainOf(bucket[key])[3].action}
               = {"RETRIEVE", "ANALYZE"}

\* C10 (Spec).  The put of addCustodyEvent goes to the key it fetched
\* from, with the body and every metadata property as fetched, except
\* that the chain is the fetched chain followed by exactly one entry
\* carrying the given action, user and description; a successful call
\* returns that metadata.
C10_AddCustodyEventFrame ==
    \A w \in Workers :
        (result[w].op = "addCustodyEvent" /\ result[w].puts = 1) =>
            LET r == result[w]
                old == ChainOf(r.fetched)
                new == ChainOf(r.put)
            IN  /\ r.put.Key = r.fetched.Key
                /\ r.put.Body = r.fetched.Body
                /\ DOMAIN r.put.Metadata = DOMAIN r.fetched.Metadata
                /\ \A g \in DOMAIN r.fetched.Metadata \ {"chainOfCustody"} :
                       r.put.Metadata[g] = r.fetched.Metadata[g]
                /\ Len(new) = Len(old) + 1
                /\ IsPrefix(old, new)
                /\ new[Len(new)].action = r.action
                /\ new[Len(new)].user = r.user
                /\ (r.description # Undefined =>
                       new[Len(new)].description = r.description)
                /\ (r.status = "ok" => r.metadata = r.put.Metadata)

\* C10 witness: a successful addCustodyEvent on an object whose chain had
\* already grown.
C10_AddCustodyEventReached ==
    \E w \in Workers :
        /\ result[w].op = "addCustodyEvent"
        /\ result[w].status = "ok"
        /\ Len(ChainOf(result[w].fetched)) >= 2

\* C4 (SpecTamper).  When the get of retrieve answers with an object whose
\* ciphertext, iv, authTag or stored sha256 does not match, retrieve throws,
\* returns neither metadata nor plaintext, writes nothing to the output
\* sink, issues no put, and leaves the bucket, the stored custody chain
\* included, exactly as it was.
C4_IntegrityFailureAborts ==
    [][\A w \in Workers :
          (pc[w] = "retrieve_get" /\ pc'[w] # "retrieve_get"
                                  /\ ~Intact(bucket[frame[w].s3Key])) =>
              /\ pc'[w] = "idle"
              /\ result'[w].status = "error"
              /\ result'[w].data = Undefined
              /\ result'[w].metadata = NoMeta
              /\ result'[w].sink = Undefined
              /\ result'[w].puts = 0
              /\ bucket' = bucket]_vars

\* C4 witness: a retrieve of a freshly stored, then corrupted object has
\* failed on decryption, and the stored chain still has its one entry.
C4_IntegrityFailureReached ==
    \E w \in Workers :
        /\ result[w].op = "retrieve"
        /\ result[w].error = "DecryptError"
        /\ ~Intact(bucket[result[w].s3Key])
        /\ Len(ChainOf(bucket[result[w].s3Key])) = 1

\* Failures of the surroundings (the object store, the output file).
Outage == {"StoreUnavailable", "OutputError"}

C8_StoreRetrieveRoundTrip ==
    \A w \in Workers :
        LET r == result[w]
        IN  /\ (/\ r.op = "retrieve"
                /\ r.prior.op = "store"
                /\ r.prior.status = "ok"
                /\ r.prior.evidenceId = r.evidenceId
                /\ r.error \notin Outage) =>
                   /\ r.status = "ok"
                   /\ r.data = r.prior.given
                   /\ Len(r.metadata.chainOfCustody) = 2
                   /\ r.metadata.chainOfCustody[1].action = "STORE"
                   /\ r.metadata.chainOfCustody[1].user = r.prior.user
                   /\ r.metadata.chainOfCustody[2].action = "RETRIEVE"
                   /\ r.metadata.chainOfCustody[2].user = r.user
            /\ (/\ r.op = "getChainOfCustody"
                /\ r.prior.op = "retrieve"
                /\ r.prior.status = "ok"
                /\ r.prior.evidenceId = r.evidenceId
                /\ r.error \notin Outage) =>
                   r.status = "ok"

\* C9 (SpecSerial).  getMetadata on an existing evidence id returns the
\* metadata persisted for it and issues no put, and two getMetadata calls
\* in a row on one id return identical chains.
C9_GetMetadataReturnsStored ==
    \A w \in Workers :
        LET r == result[w]
        IN  /\ (r.op = "getMetadata" /\ r.error \notin {"NotFound", "StoreUnavailable"}) =>
                   /\ r.status = "ok"
                   /\ r.puts = 0
                   /\ r.metadata = r.fetched.Metadata
            /\ (/\ r.op = "getMetadata" /\ r.status = "ok"
                /\ r.prior.op = "getMetadata"
                /\ r.prior.status = "ok"
                /\ r.prior.evidenceId = r.evidenceId) =>
                   r.metadata.chainOfCustody = r.prior.metadata.chainOfCustody

\* The predicate search is claimed to apply to one artifact's metadata.
Satisfies(metadata, filters) ==
    /\ filters.type # UndefinedPath => Prop(metadata, "type") = filters.type
    /\ filters.caseId # Undefined => Prop(metadata, "caseId") = filters.caseId
    /\ filters.tags # <<>> =>
          \E i \in DOMAIN filters.tags, j \in DOMAIN metadata.tags :
              filters.tags[i] = metadata.tags[j]
    /\ \A dateFrom \in filters.dateFrom : metadata.timestamp >= dateFrom
    /\ \A dateTo \in filters.dateTo : metadata.timestamp <= dateTo

\* C11 (SpecSearch).  A search that the object store answers returns one
\* summary per stored artifact whose metadata satisfies every supplied
\* filter, and nothing else.
C11_SearchReturnsMatches ==
    [][\A w \in Workers :
          (/\ nOps' # nOps /\ pc[w] = "idle" /\ pc'[w] = "idle"
           /\ result'[w].op = "search"
           /\ result'[w].error # "StoreUnavailable") =>
              LET r == result'[w]
                  hits == {k \in DOMAIN bucket : Satisfies(bucket[k].Metadata, r.filters)}
              IN  /\ r.status = "ok"
                  /\ Len(r.results) = Cardinality(hits)
                  /\ {r.results[i].metadata : i \in DOMAIN r.results} =
                        {bucket[k].Metadata : k \in hits}]_vars

\* C12 (SpecForge).  getChainOfCustody on an evidence id whose stored
\* chain holds an entry with an invalid signature ends in an error, hands
\* out no chain, issues no put and leaves the bucket as it was.
C12_ForgedChainIsRefused ==
    [][\A w \in Workers :
          (/\ nOps' # nOps /\ pc[w] = "idle" /\ pc'[w] = "idle"
           /\ result'[w].op = "getChainOfCustody"
           /\ \E key \in DOMAIN bucket :
                 /\ EndsWithSlashId(key, result'[w].evidenceId)
                 /\ \A other \in DOMAIN bucket :
                       EndsWithSlashId(other, result'[w].evidenceId) =>
                          ~VerifyChain(ChainOf(bucket[other]))) =>
              /\ result'[w].status = "error"
              /\ result'[w].chain = <<>>
              /\ result'[w].metadata = NoMeta
              /\ result'[w].puts = 0
              /\ bucket' = bucket]_vars

\* C12 witness: custody verification was asked for an artifact whose
\* stored chain has a forged entry, and the forged entry is still there.
C12_ForgedChainReached ==
    \E w \in Workers, key \in DOMAIN bucket :
        /\ result[w].op = "getChainOfCustody"
        /\ result[w].error \notin {"NotFound", "StoreUnavailable"}
        /\ EndsWithSlashId(key, result[w].evidenceId)
        /\ ~VerifyChain(ChainOf(bucket[key]))
        /\ Len(ChainOf(bucket[key])) >= 2

\* The values a forger may give a signed property of an entry.
ForgedValues(g) ==
    CASE g = "timestamp" -> Times
      [] g = "evidenceId" -> {UndefinedPath, <<"u1">>, <<"u2">>, <<"x">>}
      [] g = "action" -> {"STORE", "RETRIEVE", "ANALYZE"}
      [] g = "user" -> {Undefined, "alice", "bob"}
      [] g = "description" -> {Undefined, EmptyString, "note", "forged"}

\* C13 (SpecValidation).  Every chain the vault has stored verifies, and
\* it stops verifying as soon as one signed property of one of its entries
\* is given another value while the signature is kept.
C13_ChainIntegrity ==
    \A key \in DOMAIN bucket :
        LET chain == ChainOf(bucket[key])
        IN  /\ VerifyChain(chain)
            /\ \A i \in DOMAIN chain, g \in SignedFields :
                  \A v \in ForgedValues(g) \ {chain[i][g]} :
                      ~VerifyChain([chain EXCEPT ![i][g] = v])

\* C13 witness: a stored chain holds entries of store, retrieve and
\* addCustodyEvent, one of them without a description.
C13_MixedChainReached ==
    \E key \in DOMAIN bucket :
        LET chain == ChainOf(bucket[key])
        IN  /\ Len(chain) = 3
            /\ {chain[i].action : i \in DOMAIN chain} = {"STORE", "RETRIEVE", "ANALYZE"}
            /\ \E i \in DOMAIN chain : chain[i].description = EmptyString

\* The methods that look an artifact up by its evidence id.
Lookups == {"retrieve", "getMetadata", "getChainOfCustody", "addCustodyEvent"}

\* No stored key ends in /id.
NoKeyFor(id) == \A key \in DOMAIN bucket : ~EndsWithSlashId(key, id)

\* The step is the start of a call of worker w (and of nobody else).
Calls(w) ==
    /\ nOps' # nOps
    /\ pc[w] = "idle"
    /\ \A v \in Workers \ {w} : pc'[v] = pc[v] /\ result'[v] = result[v]

\* C14 (Spec).  A lookup of an evidence id for which no stored key ends in
\* /id, once the listing has answered, fails with the not-found error,
\* without a get or a put and without a change of the bucket; a lookup
\* goes on to its get only when such a key exists.
C14_UnknownIdNotFound ==
    [][\A w \in Workers :
          Calls(w) =>
              /\ (pc'[w] # "idle" /\ frame'[w].op \in Lookups) =>
                    ~NoKeyFor(frame'[w].evidenceId)
              /\ (/\ pc'[w] = "idle"
                  /\ result'[w].op \in Lookups
                  /\ result'[w].error # "StoreUnavailable"
                  /\ NoKeyFor(result'[w].evidenceId)) =>
                    /\ result'[w].status = "error"
                    /\ result'[w].error = "NotFound"
                    /\ result'[w].gets = 0
                    /\ result'[w].puts = 0
                    /\ bucket' = bucket]_vars

\* C14 witness: addCustodyEvent and another lookup have failed on ids
\* without a key while the bucket held another artifact.
C14_NotFoundReached ==
    /\ bucket # <<>>
    /\ \E w \in Workers :
          /\ result[w].op = "addCustodyEvent"
          /\ result[w].error = "NotFound"
          /\ NoKeyFor(result[w].evidenceId)
    /\ \E w \in Workers :
          /\ result[w].op \in {"retrieve", "getMetadata", "getChainOfCustody"}
          /\ result[w].error = "NotFound"
          /\ NoKeyFor(result[w].evidenceId)

\* The parts of a stored object that make up the artifact itself.
Artifact(obj) ==
    [ Body |-> obj.Body, iv |-> obj.Metadata.iv, authTag |-> obj.Metadata.authTag,
      hash |-> obj.Metadata.hash ]

\* C15 (SpecSerial).  Once an object exists under a key, no step of the
\* vault changes its ciphertext, iv, authTag or content hashes.
C15_ArtifactImmutable ==
    [][\A key \in DOMAIN bucket :
          key \in DOMAIN bucket' /\ Artifact(bucket'[key]) = Artifact(bucket[key])]_vars

\* C16 (SpecKeys).  For every evidence id, at most one stored key ends in
\* /id: two stored keys never share a proper suffix that starts after a '/'.
C16_EvidenceIdUnique ==
    \A key \in DOMAIN bucket, other \in DOMAIN bucket :
        \A n \in 1..(Len(key) - 1) :
            EndsWithSlashId(other, SubSeq(key, n + 1, Len(key))) => other = key

\* C17 (SpecKeys).  Every stored object lies under the key made of the
\* type and the evidenceId of its embedded metadata, and the id a store
\* returns is the evidenceId of the metadata it wrote.
C17_KeyFromMetadata ==
    /\ \A key \in DOMAIN bucket :
          key = S3Key(Prop(bucket[key].Metadata, "type"),
                      Prop(bucket[key].Metadata, "evidenceId"))
    /\ \A w \in Workers :
          (result[w].op = "store" /\ result[w].status = "ok") =>
              /\ Prop(result[w].put.Metadata, "evidenceId") = result[w].evidenceId
              /\ result[w].put.Key = S3Key(Prop(result[w].put.Metadata, "type"),
                                           result[w].evidenceId)

\* The awaits of a put.
PutPcs == {"store_put", "retrieve_put", "add_put"}

\* The step ends a call of worker w.
Ends(w) == pc'[w] = "idle" /\ (pc[w] # "idle" \/ Calls(w))

\* C18 (Spec).  A call issues at most one get and one put; the bucket
\* changes only by the one put of a call, which is the call's last
\* object-store request; and a call that ends in a failure of the object
\* store has changed nothing.
C18_NoRetryNoPartialWrite ==
    [][/\ \A w \in Workers :
             Ends(w) =>
                 /\ result'[w].gets <= 1
                 /\ result'[w].puts <= 1
                 /\ result'[w].error = "StoreUnavailable" =>
                       ~result'[w].putDone /\ bucket' = bucket
       /\ bucket' # bucket =>
             \E w \in Workers :
                 /\ pc[w] \in PutPcs
                 /\ pc'[w] = "idle"
                 /\ result'[w].putDone
                 /\ result'[w].puts = 1
                 /\ DOMAIN bucket' = DOMAIN bucket \cup {result'[w].put.Key}
                 /\ \A key \in DOMAIN bucket \ {result'[w].put.Key} :
                       bucket'[key] = bucket[key]]_vars

\* C18 witness: a put of addCustodyEvent has failed, the call has ended
\* with that failure, and the stored chain is without the new entry.
C18_FailedPutReached ==
    \E w \in Workers :
        /\ result[w].op = "addCustodyEvent"
        /\ result[w].error = "StoreUnavailable"
        /\ result[w].puts = 1
        /\ ChainOf(bucket[result[w].put.Key]) # result[w].put.Metadata.chainOfCustody

\* C19 (Spec).  No step removes a key from the bucket.
C19_NeverDeletes ==
    [][\A key \in DOMAIN bucket : key \in DOMAIN bucket']_vars

\* C19 witness: the bucket holds two objects and one of them has been
\* put back by an appender.
C19_TwoObjectsReached ==
    /\ Cardinality(DOMAIN bucket) >= 2
    /\ \E key \in DOMAIN bucket : Len(ChainOf(bucket[key])) >= 2

C21_TypeInClosedSet ==
    \A key \in DOMAIN bucket :
        /\ Prop(bucket[key].Metadata, "type") \in evidenceTypes
        /\ <<Head(key)>> \in evidenceTypes

\* C22 (SpecKeys).  No two stored objects were encrypted under the same
\* iv.
C22_IvsPairwiseDistinct ==
    \A key \in DOMAIN bucket, other \in DOMAIN bucket :
        key # other => bucket[key].Metadata.iv # bucket[other].Metadata.iv

\* The envelope env is not, bit for bit, the one _encryptData returned.
Altered(env) ==
    \/ ~env.Body.intact
    \/ env.Metadata.iv # ToHex(env.Body.gcmIv)
    \/ env.Metadata.authTag # ToHex(GcmTag(env.Body.gcmIv, env.Body.plain))

\* C23 (SpecCrypto).  Decrypting an envelope in which a bit of the
\* ciphertext, the iv or the auth tag was changed fails, and a decryption
\* that returns, returns the plaintext that was encrypted.
C23_TamperDetection ==
    \A w \in Workers :
        result[w].op = "decrypt" =>
            /\ Altered(result[w].fetched) => result[w].status = "error"
            /\ result[w].status = "ok" => result[w].data = result[w].given

\* C24 (SpecTamper).  A retrieve hands plaintext out, to the caller or to
\* outputPath, only in the step in which its put is applied, and then the
\* plaintext hashes to the stored digest and the chain now stored ends
\* with this call's RETRIEVE entry.
C24_ReleaseAfterPut ==
    [][\A w \in Workers :
          (/\ result'[w] # result[w]
           /\ result'[w].op = "retrieve"
           /\ (result'[w].data # Undefined \/ result'[w].sink # Undefined)) =>
              LET r == result'[w]
                  chain == ChainOf(bucket'[r.s3Key])
              IN  /\ pc[w] = "retrieve_put"
                  /\ r.status = "ok"
                  /\ r.putDone
                  /\ Sha256(r.data) = r.fetched.Metadata.hash.sha256
                  /\ chain = r.metadata.chainOfCustody
                  /\ chain[Len(chain)].action = "RETRIEVE"
                  /\ chain[Len(chain)].user = r.user
                  /\ Len(chain) = Len(ChainOf(r.fetched)) + 1]_vars

\* C24 witness: a retrieve has written the plaintext to outputPath and
\* returned it, and the stored chain holds its RETRIEVE entry.
C24_ReleasedReached ==
    \E w \in Workers :
        /\ result[w].op = "retrieve"
        /\ result[w].status = "ok"
        /\ result[w].sink = result[w].data
        /\ result[w].data \in Payloads
        /\ ChainOf(bucket[result[w].s3Key]) = result[w].metadata.chainOfCustody

\* C25 (Spec).  An appender fetches the chain stored under its key and
\* its put writes that chain followed by exactly one entry, its own; so
\* for an artifact stored once, after k successful appends the stored
\* chain has at least 2 and at most 1 + k entries (at least 1 + 1 when
\* k >= 1), starts with the STORE entry, and holds only entries the vault
\* signed for that artifact.
C25_BoundedLoss ==
    [][/\ \A w \in Workers :
             LET key == frame[w].s3Key
             IN  /\ (pc[w] \in {"retrieve_get", "add_get"} /\ pc'[w] \in PutPcs) =>
                       ChainOf(frame'[w].fetched) = ChainOf(bucket[key])
                 /\ (/\ pc[w] \in {"retrieve_put", "add_put"}
                     /\ pc'[w] = "idle"
                     /\ result'[w].putDone) =>
                       LET put == ChainOf(bucket'[key])
                           entry == put[Len(put)]
                       IN  /\ Len(put) = Len(ChainOf(frame[w].fetched)) + 1
                           /\ IsPrefix(ChainOf(frame[w].fetched), put)
                           /\ entry.evidenceId = frame[w].evidenceId
                           /\ entry.user = frame[w].user
                           /\ entry.action = IF pc[w] = "retrieve_put" THEN "RETRIEVE"
                                             ELSE frame[w].action
       /\ \A id \in DOMAIN history' :
             history'[id].stores = 1 =>
                 LET chain == ChainOf(bucket'[history'[id].s3Key])
                     k == history'[id].appends
                 IN  /\ k >= 1 => Len(chain) >= 2
                     /\ Len(chain) <= 1 + k
                     /\ chain[1].action = "STORE"
                     /\ VerifyChain(chain)
                     /\ \A i \in DOMAIN chain : chain[i].evidenceId = id]_vars

\* C25 witness: an artifact stored once has seen two successful appends
\* and its chain has two entries: one append was lost, not both.
C25_OneOfTwoLostReached ==
    \E id \in DOMAIN history :
        /\ history[id].stores = 1
        /\ history[id].appends = 2
        /\ Len(ChainOf(bucket[history[id].s3Key])) = 2

\* C26 (SpecSerial).  retrieveEvidence and addCustodyEvent called with an
\* id read and rewrite only an object whose embedded metadata carries that
\* id as its evidenceId.
C26_LookupTargetsId ==
    \A w \in Workers :
        /\ (pc[w] \in PutPcs /\ frame[w].op \in Appenders) =>
              Prop(frame[w].fetched.Metadata, "evidenceId") = frame[w].evidenceId
        /\ (result[w].op \in Appenders /\ result[w].fetched # NoObject) =>
              Prop(result[w].fetched.Metadata, "evidenceId") = result[w].evidenceId

\* The decryption and digest comparison of retrieveEvidence pass on obj.
Opens(obj) ==
    /\ DecryptOk(obj.Body, obj.Metadata.iv, obj.Metadata.authTag)
    /\ Sha256(_decryptData(obj.Body, obj.Metadata.iv, obj.Metadata.authTag))
          = obj.Metadata.hash.sha256

\* C27 (SpecEnvelope).  With the vault the only writer, every stored
\* object opens: its body decrypts under its stored iv and authTag to the
\* plaintext of its stored sha256.  None of its iv, authTag and hash is the
\* value a caller passed in the metadata of store, and its custody chain
\* starts with the STORE entry the vault signed, not the caller's chain.
C27_EnvelopeConsistent ==
    \A key \in DOMAIN bucket :
        LET obj == bucket[key]
        IN  /\ Opens(obj)
            /\ obj.Metadata.iv # CallerEnvelope.iv
            /\ obj.Metadata.authTag # CallerEnvelope.authTag
            /\ obj.Metadata.hash # CallerEnvelope.hash
            /\ ChainOf(obj) # CallerEnvelope.chainOfCustody
            /\ ChainOf(obj)[1].action = "STORE"
            /\ VerifyChain(ChainOf(obj))

\* C27 (witness).  A store whose metadata argument carried all four
\* envelope properties has put its object, and an appender has rewritten
\* the object under that key.
C27_OverrideTriedReached ==
    \E w \in Workers, v \in Workers :
        /\ result[w].op = "store" /\ result[w].status = "ok"
        /\ result[w].extra = EnvelopeProps
        /\ result[v].op \in Appenders /\ result[v].putDone
        /\ result[v].put.Key = result[w].put.Key

\* The stored chain of id, stored once, is not the chain the vault wrote:
\* it has fewer or more entries than the store and the appends made, or it
\* does not begin with the STORE entry.
Rearranged(id) ==
    /\ id \in DOMAIN history
    /\ history[id].stores = 1
    /\ LET chain == ChainOf(bucket[history[id].s3Key])
       IN  \/ Len(chain) # 1 + history[id].appends
           \/ chain[1].action # "STORE"

\* C28 (SpecRearrange).  getChainOfCustody on an artifact whose stored
\* chain was made from the vault's by deleting, duplicating or moving whole
\* entries passes verification: with the store answering, the call
\* succeeds and returns the stored chain.
C28_RearrangedChainPasses ==
    [][\A w \in Workers :
          (/\ Calls(w) /\ Ends(w)
           /\ result'[w].op = "getChainOfCustody"
           /\ result'[w].error # "StoreUnavailable"
           /\ Rearranged(result'[w].evidenceId)) =>
              /\ result'[w].status = "ok"
              /\ result'[w].chain = ChainOf(bucket[history[result'[w].evidenceId].s3Key])]_vars

\* Every stored chain is one getChainOfCustody's test of the entries
\* accepts, rearranged or not.
RearrangedChainsVerify ==
    \A key \in DOMAIN bucket : VerifyChain(ChainOf(bucket[key]))

\* C29 (SpecPaging).  A lookup of an evidence id for which a stored key
\* ends in /id does not fail with the not-found error, however many other
\* objects the bucket holds.
C29_StoredStaysReachable ==
    [][\A w \in Workers :
          (/\ Calls(w) /\ Ends(w)
           /\ result'[w].op \in {"retrieve", "getMetadata", "addCustodyEvent"}
           /\ ~NoKeyFor(result'[w].evidenceId)) =>
              result'[w].error # "NotFound"]_vars

\* The stored keys whose objects carry evidence metadata.
EvidenceObjects == {key \in DOMAIN bucket : bucket[key].Metadata # NoMeta}

\* C30 (SpecReadOnly).  searchEvidence and getChainOfCustody, whether they
\* succeed or fail, issue no get and no put and leave the bucket as it
\* was; and a search of a bucket that holds an object without evidence
\* metadata, the store answering, succeeds and returns the evidence
\* objects only.
C30_ReadOnlyAndSkips ==
    [][\A w \in Workers :
          (/\ Calls(w) /\ Ends(w)
           /\ result'[w].op \in {"search", "getChainOfCustody"}) =>
              /\ bucket' = bucket
              /\ result'[w].gets = 0 /\ result'[w].puts = 0
              /\ (/\ result'[w].op = "search"
                  /\ result'[w].filters = NoFilters
                  /\ result'[w].error # "StoreUnavailable"
                  /\ EvidenceObjects # DOMAIN bucket) =>
                    /\ result'[w].status = "ok"
                    /\ {result'[w].results[i].metadata : i \in DOMAIN result'[w].results}
                          = {bucket[key].Metadata : key \in EvidenceObjects}]_vars

\* The part of C30 about writes: no step of searchEvidence,
\* getChainOfCustody or getEvidenceMetadata changes the bucket or issues a
\* get or a put.
ReadsLeaveBucketAlone ==
    [][\A w \in Workers :
          (/\ Calls(w) /\ Ends(w)
           /\ result'[w].op \in {"search", "getChainOfCustody", "getMetadata"}) =>
              /\ bucket' = bucket
              /\ result'[w].gets = 0 /\ result'[w].puts = 0]_vars

====
